---- MODULE Spec2Model ----
(***************************************************************************)
(* Model of vfastpunct/models/PuncCapLstm.py: the PuncCapBiLstmCrf module.  *)
(*                                                                         *)
(* Three parts of the class are modelled:                                  *)
(*   - the valid-token compaction loops of forward (lines 88-95), one      *)
(*     statement at a time (SpecCompact);                                  *)
(*   - a whole call of forward: compaction, dropout, the two linear        *)
(*     classifiers, the two CRF heads and the return (SpecForward);        *)
(*   - resize_token_embeddings (SpecResize).                               *)
(*                                                                         *)
(* Numbers.  feat_dim is 1, so a hidden vector is one integer and the      *)
(* all-zero vector is 0.  Scores of the CRF heads are kept in the          *)
(* exponential domain: a potential is exp(score), a positive integer; a    *)
(* sum of scores is a product of potentials, logsumexp is a sum, max and   *)
(* argmax are unchanged, and a log-likelihood is the logarithm of a        *)
(* fraction num/den of two positive integers (<= 0 iff num <= den).        *)
(* Tensors are functions over 0..n-1, indexed as in the source.            *)
(***************************************************************************)
EXTENDS Integers, Sequences, FiniteSets, TLC

\* ---------------------------------------------------------------- bounds
MaxBatch == 2
MaxLen == 3
MaxVocab == 4

VARIABLES
    \* forward, lines 88-95 (statement level)
    pc, batch_size, max_len, valid_ids, seq_output, valid_output, i, j, jj, writes,
    \* forward, whole call
    training, sequence_output, label_masks, plabels, clabels, p_crf, c_crf, outcome,
    \* resize_token_embeddings
    word_embeddings, old_embeddings, vocab_size, new_num_tokens, raised

cvars == <<pc, batch_size, max_len, valid_ids, seq_output, valid_output, i, j, jj, writes>>
fvars == <<training, sequence_output, label_masks, plabels, clabels, p_crf, c_crf, outcome>>
rvars == <<word_embeddings, old_embeddings, vocab_size, new_num_tokens, raised>>
vars == <<cvars, fvars, rvars>>

\* Python's None (an absent argument, an unset result)
None == <<>>

\* ------------------------------------------------------- tensor helpers
Idx(n) == 0 .. (n - 1)

\* A Python index into a dimension of size n: negative indices count from the end.
PyIndex(k, n) == IF k < 0 THEN n + k ELSE k

InRange(k, n) == k >= -n /\ k < n

\* torch.zeros(batch_size, max_len, feat_dim)
Zeros(b, l) == [x \in Idx(b) |-> [y \in Idx(l) |-> 0]]

\* valid_ids[i][j].item() == 1   (IsValidFlipped: the faulty variant that
\* copies the positions that are not valid)
IsValidFlipped(v) == v # 1
IsValid(v) == v = 1

\* jj += 1   (NextWriteIndexStuck: the faulty variant without the increment)
NextWriteIndexStuck(k) == k
NextWriteIndex(k) == k + 1

\* valid_output[i][k] = v   (the caller has checked InRange(k, Len))
SetRow(out, x, k, v) ==
    [out EXCEPT ![x] = [@ EXCEPT ![PyIndex(k, Cardinality(DOMAIN @))] = v]]

\* count of positions p < n with valid_ids[x][p] == 1
RECURSIVE CountValid(_, _)
CountValid(row, n) ==
    IF n = 0 THEN 0
    ELSE CountValid(row, n - 1) + (IF row[n - 1] = 1 THEN 1 ELSE 0)

\* the k-th (0-indexed) position p < n with row[p] == 1, or -1 if there is none
RECURSIVE KthValid(_, _, _)
KthValid(row, k, n) ==
    IF n = 0 THEN -1
    ELSE IF row[n - 1] = 1 /\ CountValid(row, n - 1) = k THEN n - 1
    ELSE KthValid(row, k, n - 1)

\* ------------------------------------------- forward, lines 88-95, stepwise
\* The encoder output of a batch: every position holds its own value, so that
\* a copy shows where it came from; base 0 places a zero vector at [0][0].
SeqOutputs(b, l) == { [x \in Idx(b) |-> [y \in Idx(l) |-> base + x * l + y]] : base \in {0, 1} }

ForwardIdle ==
    /\ training = FALSE
    /\ sequence_output = None
    /\ label_masks = None
    /\ plabels = None
    /\ clabels = None
    /\ p_crf = None
    /\ c_crf = None
    /\ outcome = None

ResizeIdle ==
    /\ word_embeddings = <<>>
    /\ old_embeddings = <<>>
    /\ vocab_size = 0
    /\ new_num_tokens = {}
    /\ raised = None

InitCompact ==
    /\ batch_size \in 1 .. MaxBatch
    /\ max_len \in 1 .. MaxLen
    /\ valid_ids \in [Idx(batch_size) -> [Idx(max_len) -> {0, 1}]]
    /\ seq_output \in SeqOutputs(batch_size, max_len)
    /\ valid_output = Zeros(batch_size, max_len)
    /\ pc = "for_i"
    /\ i = 0
    /\ j = 0
    /\ jj = -1
    /\ writes = [x \in Idx(batch_size) |-> <<>>]
    /\ ForwardIdle
    /\ ResizeIdle

\* line 90-91: for i in range(batch_size): jj = -1
ForI ==
    /\ pc = "for_i"
    /\ IF i < batch_size
       THEN /\ jj' = -1
            /\ j' = 0
            /\ pc' = "for_j"
            /\ UNCHANGED i
       ELSE /\ pc' = "compacted"
            /\ UNCHANGED <<i, j, jj>>
    /\ UNCHANGED <<batch_size, max_len, valid_ids, seq_output, valid_output, writes>>
    /\ UNCHANGED <<fvars, rvars>>

\* lines 92-95: one iteration of for j in range(max_len), or its exit
ForJ ==
    /\ pc = "for_j"
    /\ IF j < max_len
       THEN IF IsValid(valid_ids[i][j])
            THEN LET k == NextWriteIndex(jj) IN
                 IF InRange(k, max_len)
                 THEN /\ jj' = k
                      /\ valid_output' = SetRow(valid_output, i, k, seq_output[i][j])
                      /\ writes' = [writes EXCEPT ![i] = Append(@, k)]
                      /\ j' = j + 1
                      /\ UNCHANGED <<pc, i>>
                 ELSE \* IndexError
                      /\ jj' = k
                      /\ pc' = "IndexError"
                      /\ UNCHANGED <<valid_output, writes, i, j>>
            ELSE /\ j' = j + 1
                 /\ UNCHANGED <<pc, i, jj, valid_output, writes>>
       ELSE /\ i' = i + 1
            /\ pc' = "for_i"
            /\ UNCHANGED <<j, jj, valid_output, writes>>
    /\ UNCHANGED <<batch_size, max_len, valid_ids, seq_output>>
    /\ UNCHANGED <<fvars, rvars>>

NextCompact == ForI \/ ForJ

SpecCompact == InitCompact /\ [][NextCompact]_vars

\* ---------------------------------------------- lines 88-95 as one function
\* The inner loop from position y on, with write index k and output row out.
RECURSIVE CompactLoop(_, _, _, _, _, _)
CompactLoop(vrow, srow, out, k, y, l) ==
    IF y = l THEN out
    ELSE IF IsValid(vrow[y])
         THEN LET k2 == NextWriteIndex(k) IN
              IF InRange(k2, l)
              THEN CompactLoop(vrow, srow, [out EXCEPT ![PyIndex(k2, l)] = srow[y]], k2, y + 1, l)
              ELSE "IndexError"
         ELSE CompactLoop(vrow, srow, out, k, y + 1, l)

Compact(valid, seq, b, l) ==
    [x \in Idx(b) |-> CompactLoop(valid[x], seq[x], [y \in Idx(l) |-> 0], -1, 0, l)]

\* The statement-level loops end in the value of the function.
CompactAgrees ==
    pc = "compacted" => valid_output = Compact(valid_ids, seq_output, batch_size, max_len)

\* ------------------------------------------------------------ claims C1, C9
\* C1: after the compaction loops, valid_output[x][k] is seq_output[x][p_k] for
\* k < c, p_k the k-th position with valid_ids[x][p] == 1 and c their count, and
\* is the zero vector for k >= c (so a row without valid positions is all zero).
C1_Compaction ==
    pc = "compacted" =>
        \A x \in Idx(batch_size) :
            LET c == CountValid(valid_ids[x], max_len) IN
            \A k \in Idx(max_len) :
                IF k < c
                THEN valid_output[x][k] = seq_output[x][KthValid(valid_ids[x], k, max_len)]
                ELSE valid_output[x][k] = 0

\* a finished batch with one row without valid positions and one row whose
\* valid positions start after a gap and do not fill the row
C1_Witness ==
    /\ pc = "compacted"
    /\ \E x, y \in Idx(batch_size) :
        /\ CountValid(valid_ids[x], max_len) = 0
        /\ CountValid(valid_ids[y], max_len) = 2
        /\ max_len = 3
        /\ valid_ids[y][0] = 0
        /\ valid_output[y][0] # 0

StrictlyIncreasing(s) == \A a, b \in 1 .. Len(s) : a < b => s[a] < s[b]

C9_LoopInvariant ==
    /\ pc # "IndexError"
    /\ pc = "for_j" =>
        /\ jj = CountValid(valid_ids[i], j) - 1
        /\ -1 <= jj /\ jj <= j - 1 /\ j <= max_len
        /\ Len(writes[i]) = jj + 1
    /\ \A x \in Idx(batch_size) :
        /\ \A a \in 1 .. Len(writes[x]) : writes[x][a] >= 0 /\ writes[x][a] < max_len
        /\ StrictlyIncreasing(writes[x])

\* C9: in the inner loop, after the positions below j, jj is the number of
\* valid positions seen minus one, so -1 <= jj < j <= max_len; a write is never
\* out of bounds nor at a negative index, the written slots strictly increase
\* (each is written at most once), and seq_output and valid_ids never change.
C9_Loop ==
    /\ [] C9_LoopInvariant
    /\ [][seq_output' = seq_output /\ valid_ids' = valid_ids]_vars

\* inside the loop of the second row, after two writes and a skipped position
C9_Witness ==
    /\ pc = "for_j"
    /\ i = 1
    /\ Len(writes[i]) = 2
    /\ jj < j - 1
    /\ Len(writes[0]) = 1

\* ------------------------------------------------------------ arithmetic
RECURSIVE Pow(_, _)
Pow(a, n) == IF n = 0 THEN 1 ELSE a * Pow(a, n - 1)

RECURSIVE Gcd(_, _)
Gcd(a, b) == IF b = 0 THEN a ELSE Gcd(b, a % b)

\* sum of f[0] .. f[n-1]
RECURSIVE SumTo(_, _)
SumTo(f, n) == IF n = 0 THEN 0 ELSE SumTo(f, n - 1) + f[n - 1]

\* number of entries of a 0/1 row of length n that are not 0:  mask.long().sum()
RECURSIVE CountOn(_, _)
CountOn(row, n) == IF n = 0 THEN 0 ELSE CountOn(row, n - 1) + (IF row[n - 1] # 0 THEN 1 ELSE 0)

\* torch.max over f[0] .. f[n-1]: the value, and the index of its first occurrence
RECURSIVE ArgMax(_, _)
ArgMax(f, n) ==
    IF n = 1 THEN 0
    ELSE LET a == ArgMax(f, n - 1) IN IF f[n - 1] > f[a] THEN n - 1 ELSE a
MaxOf(f, n) == f[ArgMax(f, n)]

\* exp of a log-likelihood, a fraction num/den in lowest terms
Frac(n, d) == LET g == Gcd(n, d) IN [num |-> n \div g, den |-> d \div g]
FracMul(a, b) ==
    LET g1 == Gcd(a.num, b.den)
        g2 == Gcd(b.num, a.den)
    IN  [num |-> (a.num \div g1) * (b.num \div g2), den |-> (a.den \div g2) * (b.den \div g1)]
FracInv(a) == [num |-> a.den, den |-> a.num]
FracOne == [num |-> 1, den |-> 1]
\* log(a) >= 0
FracLogNonNeg(a) == a.num >= a.den

\* -------------------------------------------- lines 97-100: dropout, linear
\* config.num_plabels and config.num_clabels (line 13 gives the defaults 9 and
\* 3; the configuration may set any size), here two labels per head.
num_plabels == 2
num_clabels == 2

\* nn.Dropout in training mode with p = 1/2: an element is zeroed or scaled by
\* 1 / (1 - p); keep[y] = 1 keeps position y.  In evaluation mode the identity.
DropScale == 2
Dropout(row, keep, train, l) ==
    [y \in Idx(l) |-> IF train THEN (IF keep[y] = 1 THEN row[y] * DropScale ELSE 0) ELSE row[y]]

\* the masks dropout draws: in training mode nothing dropped, everything
\* dropped, or the even positions dropped; outside training none is drawn
KeepMasks(train, b, l) ==
    IF train
    THEN { [x \in Idx(b) |-> [y \in Idx(l) |-> 1]],
           [x \in Idx(b) |-> [y \in Idx(l) |-> 0]],
           [x \in Idx(b) |-> [y \in Idx(l) |-> y % 2]] }
    ELSE { [x \in Idx(b) |-> [y \in Idx(l) |-> 1]] }

\* nn.Linear(hidden_size, n) on a feature of size 1: logit[t] = w[t] * h + b[t],
\* as a potential expb[t] * expw[t]^h.
Classifier(cls, row, n, l) ==
    [y \in Idx(l) |-> [t \in Idx(n) |-> cls.expb[t] * Pow(cls.expw[t], row[y])]]

\* ------------------------------------------------ torchcrf.CRF (one head)
\* CRF._validate: with batch_first, mask[:, 0] must be on for every example.
\* (ValidateIgnoresMask: the faulty variant that accepts every mask)
ValidateIgnoresMask(masks, b) == TRUE
Validate(masks, b) == \A x \in Idx(b) : masks[x][0] # 0

\* CRF._compute_score for one example: start, then for y >= 1 the transition
\* from tags[y-1] and the emission of tags[y], to the power mask[y]; then the
\* end transition of tags[seq_ends], seq_ends = mask.sum() - 1.
RECURSIVE ScoreLoop(_, _, _, _, _)
ScoreLoop(crf, em, tags, mask, y) ==
    IF y = 0 THEN crf.start[tags[0]] * em[0][tags[0]]
    ELSE ScoreLoop(crf, em, tags, mask, y - 1)
         * (IF mask[y] # 0 THEN crf.trans[tags[y - 1]][tags[y]] * em[y][tags[y]] ELSE 1)

ComputeScore(crf, em, tags, mask, l) ==
    LET seq_ends == CountOn(mask, l) - 1
        last_tag == tags[PyIndex(seq_ends, l)]
    IN  ScoreLoop(crf, em, tags, mask, l - 1) * crf.end[last_tag]

\* The forward recursion shared by _compute_normalizer (combine = sum over the
\* previous tag) and _viterbi_decode (combine = max): the score vectors after
\* the positions 0 .. y, as a tuple; a position with mask off keeps the vector.
RECURSIVE Scores(_, _, _, _, _, _)
Scores(crf, em, mask, n, y, viterbi) ==
    IF y = 0 THEN << [t \in Idx(n) |-> crf.start[t] * em[0][t]] >>
    ELSE LET before == Scores(crf, em, mask, n, y - 1, viterbi)
             prev == before[y]
             next == [t \in Idx(n) |->
                        LET cand == [s \in Idx(n) |-> prev[s] * crf.trans[s][t] * em[y][t]]
                        IN  IF viterbi THEN MaxOf(cand, n) ELSE SumTo(cand, n)]
         IN  Append(before, IF mask[y] # 0 THEN next ELSE prev)

\* CRF._compute_normalizer for one example
ComputeNormalizer(crf, em, mask, n, l) ==
    LET a == Scores(crf, em, mask, n, l - 1, FALSE)[l]
    IN  SumTo([t \in Idx(n) |-> a[t] * crf.end[t]], n)

\* history[y - 1][tag] of _viterbi_decode: the best previous tag for tag at
\* position y, from the score vector prev after position y - 1; it is computed
\* at every position y >= 1 whatever mask[y] is.
History(crf, em, prev, n, y, tag) ==
    ArgMax([s \in Idx(n) |-> prev[s] * crf.trans[s][tag] * em[y][tag]], n)

\* history[:k] of a Python list of length len keeps this many entries
SliceEnd(k, len) == IF k < 0 THEN (IF len + k < 0 THEN 0 ELSE len + k) ELSE (IF k > len THEN len ELSE k)

\* the backward pass: from the tag at history entry h (1-based), the tags
\* before it, in forward order
RECURSIVE BackTrack(_, _, _, _, _, _)
BackTrack(crf, em, scores, n, h, tag) ==
    IF h = 0 THEN <<tag>>
    ELSE Append(BackTrack(crf, em, scores, n, h - 1, History(crf, em, scores[h], n, h, tag)), tag)

\* CRF._viterbi_decode for one example: a Python list of tags
ViterbiDecode(crf, em, mask, n, l) ==
    LET scores == Scores(crf, em, mask, n, l - 1, TRUE)
        final == [t \in Idx(n) |-> scores[l][t] * crf.end[t]]
        seq_ends == CountOn(mask, l) - 1
        kept == SliceEnd(seq_ends, l - 1)
    IN  BackTrack(crf, em, scores, n, kept, ArgMax(final, n))

\* --------------------------------------------------- forward, whole call
\* The weights of p_classifier and c_classifier (lines 32-33), fixed: the
\* punctuation head favours the last label where the feature is large, the
\* capitalization head the first.
p_classifier == [expw |-> [t \in Idx(num_plabels) |-> t + 1], expb |-> [t \in Idx(num_plabels) |-> 1]]
c_classifier == [expw |-> [t \in Idx(num_clabels) |-> num_clabels - t], expb |-> [t \in Idx(num_clabels) |-> 1]]

\* Parameters of a CRF over n labels (lines 34-35): uniform ones, and ones that
\* favour starting at label 0, the transition n-1 -> 0 and ending at n-1.
CrfUniform(n) ==
    [start |-> [t \in Idx(n) |-> 1], end |-> [t \in Idx(n) |-> 1],
     trans |-> [s \in Idx(n) |-> [t \in Idx(n) |-> 1]]]
CrfSkewed(n) ==
    [start |-> [t \in Idx(n) |-> IF t = 0 THEN 2 ELSE 1],
     end   |-> [t \in Idx(n) |-> IF t = n - 1 THEN 3 ELSE 1],
     trans |-> [s \in Idx(n) |-> [t \in Idx(n) |-> IF s = n - 1 /\ t = 0 THEN 4 ELSE 1]]]
CrfParams(n) == {CrfUniform(n), CrfSkewed(n)}

\* one head on a batch: CRF.decode(logits, mask), lines 102-103
Decode(crf, logits, masks, n, b, l) ==
    [x \in Idx(b) |-> ViterbiDecode(crf, logits[x], masks[x], n, l)]

\* one head on a batch: CRF.forward(logits, tags, mask) with reduction 'sum',
\* lines 106-107: exp of the summed log-likelihood
RECURSIVE Likelihood(_, _, _, _, _, _, _)
Likelihood(crf, logits, tags, masks, n, b, l) ==
    IF b = 0 THEN FracOne
    ELSE FracMul(Likelihood(crf, logits, tags, masks, n, b - 1, l),
                 Frac(ComputeScore(crf, logits[b - 1], tags[b - 1], masks[b - 1], l),
                      ComputeNormalizer(crf, logits[b - 1], masks[b - 1], n, l)))

\* line 108: loss = -1.0 * (p_log_likelihood + c_log_likelihood), as exp(loss)
\* (LossDropsNegation: the faulty variant without the factor -1.0)
LossDropsNegation(p, c) == FracMul(p, c)
Loss(p, c) == FracInv(FracMul(p, c))

\* line 105: if plabels is not None
\* (LossBranchOnBoth: the variant that asks for both label batches)
LossBranchOnBoth(pl, cl) == pl # None /\ cl # None
LossBranch(pl, cl) == pl # None

Raised(err, line) ==
    [kind |-> "raised", error |-> err, line |-> line, loss |-> FracOne, ptags |-> <<>>, ctags |-> <<>>]
Returned(kind, loss, pt, ct) ==
    [kind |-> kind, error |-> "", line |-> 0, loss |-> loss, ptags |-> pt, ctags |-> ct]

\* lines 99-103 on the dropout output so: the logits and the decoded tags of
\* both heads, or the exception of the first decode
DecodeHeads(so, masks, pcrf, ccrf, b, l) ==
    LET p_logits == [x \in Idx(b) |-> Classifier(p_classifier, so[x], num_plabels, l)]
        c_logits == [x \in Idx(b) |-> Classifier(c_classifier, so[x], num_clabels, l)]
        ok == Validate(masks, b)
    IN  [ok |-> ok, p_logits |-> p_logits, c_logits |-> c_logits,
         seq_ptags |-> IF ok THEN Decode(pcrf, p_logits, masks, num_plabels, b, l) ELSE <<>>,
         seq_ctags |-> IF ok THEN Decode(ccrf, c_logits, masks, num_clabels, b, l) ELSE <<>>]

\* lines 105-111 after DecodeHeads
LossAndReturn(d, masks, pl, cl, pcrf, ccrf, b, l) ==
    IF ~d.ok THEN Raised("ValueError", 102)
    ELSE IF LossBranch(pl, cl)
         THEN IF cl = None THEN Raised("AttributeError", 107)
              ELSE Returned("triple",
                            Loss(Likelihood(pcrf, d.p_logits, pl, masks, num_plabels, b, l),
                                 Likelihood(ccrf, d.c_logits, cl, masks, num_clabels, b, l)),
                            d.seq_ptags, d.seq_ctags)
         ELSE Returned("pair", FracOne, d.seq_ptags, d.seq_ctags)

\* lines 99-111 on the dropout output so
Heads(so, masks, pl, cl, pcrf, ccrf, b, l) ==
    LossAndReturn(DecodeHeads(so, masks, pcrf, ccrf, b, l), masks, pl, cl, pcrf, ccrf, b, l)

\* label batches: absent, or any label at every position
Labels(n, b, l) == {None} \cup [Idx(b) -> [Idx(l) -> Idx(n)]]
\* label batches: absent, one label repeated, or the labels 0, 1, 0, ...
SimpleLabels(n, b, l) ==
    {None} \cup { [x \in Idx(b) |-> [y \in Idx(l) |-> t]] : t \in Idx(n) }
           \cup { [x \in Idx(b) |-> [y \in Idx(l) |-> (y % 2) % n]] }

\* the encoder output of a batch of one example: the feature alternates 1, 0
SeqForward(l) == { [x \in Idx(1) |-> [y \in Idx(l) |-> (y + 1) % 2]] }

\* The model after construction (lines 20-35), before any call; a batch is one
\* example of MaxLen positions.
InitForward ==
    /\ pc = "idle"
    /\ batch_size = 1
    /\ max_len = MaxLen
    /\ valid_ids = None
    /\ seq_output = None
    /\ valid_output = None
    /\ i = 0
    /\ j = 0
    /\ jj = -1
    /\ writes = None
    /\ training = FALSE
    /\ sequence_output = None
    /\ label_masks = None
    /\ plabels = None
    /\ clabels = None
    /\ p_crf \in CrfParams(num_plabels)
    /\ c_crf \in CrfParams(num_clabels)
    /\ outcome = None
    /\ ResizeIdle

\* model.train() / model.eval(): sets the mode of the dropout layer
SetTraining ==
    /\ pc = "idle"
    /\ training' = ~training
    /\ UNCHANGED pc
    /\ UNCHANGED <<batch_size, max_len, valid_ids, seq_output, valid_output, i, j, jj, writes>>
    /\ UNCHANGED <<sequence_output, label_masks, plabels, clabels, p_crf, c_crf, outcome>>
    /\ UNCHANGED rvars

\* forward(input_ids, plabels, clabels, valid_ids, label_masks), lines 71-111
Forward ==
    /\ pc = "idle"
    /\ \E valid \in [Idx(batch_size) -> [Idx(max_len) -> {0, 1}]],
          seq \in SeqForward(max_len),
          keep \in KeepMasks(training, batch_size, max_len),
          masks \in [Idx(batch_size) -> [Idx(max_len) -> {0, 1}]] :
        LET vo == Compact(valid, seq, batch_size, max_len)
            so == [x \in Idx(batch_size) |-> Dropout(vo[x], keep[x], training, max_len)]
        IN  \E d \in {DecodeHeads(so, masks, p_crf, c_crf, batch_size, max_len)},
               pl \in Labels(num_plabels, batch_size, max_len),
               cl \in SimpleLabels(num_clabels, batch_size, max_len) :
                \E res \in {LossAndReturn(d, masks, pl, cl, p_crf, c_crf, batch_size, max_len)} :
                    /\ valid_ids' = valid
                    /\ seq_output' = seq
                    /\ label_masks' = masks
                    /\ plabels' = pl
                    /\ clabels' = cl
                    /\ valid_output' = vo
                    /\ sequence_output' = so
                    /\ outcome' = res
                    /\ pc' = res.kind
                    /\ UNCHANGED <<batch_size, max_len, i, j, jj, writes, training, p_crf, c_crf>>
                    /\ UNCHANGED rvars

\* The caller has taken the result (or caught the exception): nothing of a
\* call outlives it but the parameters and the mode.
Finish ==
    /\ pc \in {"pair", "triple", "raised"}
    /\ pc' = "idle"
    /\ valid_ids' = None
    /\ seq_output' = None
    /\ valid_output' = None
    /\ sequence_output' = None
    /\ label_masks' = None
    /\ plabels' = None
    /\ clabels' = None
    /\ outcome' = None
    /\ UNCHANGED <<batch_size, max_len, i, j, jj, writes, training, p_crf, c_crf>>
    /\ UNCHANGED rvars

NextForward == Forward \/ SetTraining \/ Finish

SpecForward == InitForward /\ [][NextForward]_vars

\* ----------------------------------------------- claims about a whole call
Called == pc \in {"pair", "triple", "raised"}
HasReturned == pc \in {"pair", "triple"}
PLogits == [x \in Idx(batch_size) |-> Classifier(p_classifier, sequence_output[x], num_plabels, max_len)]
CLogits == [x \in Idx(batch_size) |-> Classifier(c_classifier, sequence_output[x], num_clabels, max_len)]
MaskCount(x) == CountOn(label_masks[x], max_len)
IsPrefixMask(row, l) == \A y \in Idx(l) : row[y] # 0 => \A u \in Idx(y) : row[u] # 0

\* C2: a call that returns gives (loss, ptags, ctags) with loss the sum of the
\* two negated log-likelihoods when both label batches are given, and
\* (ptags, ctags) when both are absent; the tags are the two heads' decoded
\* sequences in both cases.
C2_ReturnShape ==
    HasReturned =>
        /\ outcome.ptags = Decode(p_crf, PLogits, label_masks, num_plabels, batch_size, max_len)
        /\ outcome.ctags = Decode(c_crf, CLogits, label_masks, num_clabels, batch_size, max_len)
        /\ (plabels # None /\ clabels # None) =>
              /\ outcome.kind = "triple"
              /\ outcome.loss =
                    FracMul(FracInv(Likelihood(p_crf, PLogits, plabels, label_masks, num_plabels, batch_size, max_len)),
                            FracInv(Likelihood(c_crf, CLogits, clabels, label_masks, num_clabels, batch_size, max_len)))
        /\ (plabels = None /\ clabels = None) => outcome.kind = "pair"

\* a training call that returned a loss other than 0 under skewed parameters
C2_Witness ==
    /\ pc = "triple"
    /\ plabels # None /\ clabels # None
    /\ p_crf = CrfSkewed(num_plabels)
    /\ MaskCount(0) = 2
    /\ outcome.loss.num > outcome.loss.den
    /\ Len(outcome.ptags[0]) = 2

\* C3: in every returned call, for every example, each head's decoded sequence
\* is no longer than the number of true entries of the example's label mask,
\* and the two heads' sequences have the same length.
C3_DecodedLength ==
    HasReturned =>
        \A x \in Idx(batch_size) :
            /\ Len(outcome.ptags[x]) <= MaskCount(x)
            /\ Len(outcome.ctags[x]) <= MaskCount(x)
            /\ Len(outcome.ptags[x]) = Len(outcome.ctags[x])

\* a returned call whose label mask is true at two of three positions
C3_Witness ==
    /\ HasReturned
    /\ max_len >= 3
    /\ MaskCount(0) = 2
    /\ Len(outcome.ptags[0]) = 2
    /\ Len(outcome.ctags[0]) = 2

\* the dropout outputs and label batches that agree with this call's wherever
\* the label mask is true
Features == {0, 1, DropScale}
AgreesOnMask(a, b) ==
    \A x \in Idx(batch_size) : \A y \in Idx(max_len) : label_masks[x][y] # 0 => a[x][y] = b[x][y]
AltLabels(lab, n) ==
    IF lab = None THEN {None}
    ELSE { l2 \in [Idx(batch_size) -> [Idx(max_len) -> Idx(n)]] : AgreesOnMask(l2, lab) }
AltFeatures ==
    { s2 \in [Idx(batch_size) -> [Idx(max_len) -> Features]] : AgreesOnMask(s2, sequence_output) }

\* C4: a second call with the same label mask, and the same logits and labels
\* wherever the mask is true, has the same outcome (decoded tags and loss),
\* whatever its logits and labels are where the mask is false.
C4_NonInterference ==
    Called =>
        \A s2 \in AltFeatures : \A pl2 \in AltLabels(plabels, num_plabels) :
            \A cl2 \in AltLabels(clabels, num_clabels) :
                Heads(s2, label_masks, pl2, cl2, p_crf, c_crf, batch_size, max_len) = outcome

\* C4 holds of the decoded tags under every label mask, and of the whole
\* outcome under the label masks whose true positions are a prefix.
C4_TagsOnly ==
    Called =>
        \A s2 \in AltFeatures : \A pl2 \in AltLabels(plabels, num_plabels) :
            \A cl2 \in AltLabels(clabels, num_clabels) :
                LET h == Heads(s2, label_masks, pl2, cl2, p_crf, c_crf, batch_size, max_len)
                IN  h.kind = outcome.kind /\ h.ptags = outcome.ptags /\ h.ctags = outcome.ctags
C4_PrefixMasks ==
    (Called /\ \A x \in Idx(batch_size) : IsPrefixMask(label_masks[x], max_len)) => C4_NonInterference

\* C5: a call with an example whose label mask has no true position (and
\* labels for both heads or for none) returns, with empty tag sequences for
\* that example.
C5_EmptyMaskCompletes ==
    (Called /\ (plabels = None <=> clabels = None)) =>
        \A x \in Idx(batch_size) :
            MaskCount(x) = 0 =>
                /\ HasReturned
                /\ outcome.ptags[x] = <<>>
                /\ outcome.ctags[x] = <<>>

\* C6: a call with labels for both heads and a label mask with at least one
\* true position in every example returns a loss >= 0.
C6_LossNonNegative ==
    (Called /\ plabels # None /\ clabels # None /\ \A x \in Idx(batch_size) : MaskCount(x) >= 1) =>
        /\ pc = "triple"
        /\ FracLogNonNeg(outcome.loss)

\* C6 for the calls that do return, which fails too: a label mask that is
\* on, off, on lets the labels of the position that is off into the score of
\* the true path, which then exceeds the normalizer.
C6_ReturnedLossNonNegative ==
    pc = "triple" => FracLogNonNeg(outcome.loss)

\* C8: in every returned call the label mask is false at every compacted
\* position at or beyond the number of valid positions (a zero-filled padding
\* slot), so no tag is decoded there.
C8_LabelsAreRealTokens ==
    HasReturned =>
        \A x \in Idx(batch_size) :
            LET c == CountValid(valid_ids[x], max_len) IN
            /\ c <= max_len
            /\ \A k \in Idx(max_len) : k >= c => label_masks[x][k] = 0
            /\ Len(outcome.ptags[x]) <= c
            /\ Len(outcome.ctags[x]) <= c

\* C10: plabels alone decides the branch.  Without plabels, a call with
\* clabels ends as the same call without clabels, and a call that returns
\* returns the pair; with plabels and without clabels the call always ends in
\* an exception, raised by the capitalization head's log-likelihood at line
\* 107 whenever the decoding before it went through.
C10_BranchOnPlabels ==
    Called =>
        /\ (plabels = None /\ clabels # None) =>
              /\ outcome = Heads(sequence_output, label_masks, None, None, p_crf, c_crf, batch_size, max_len)
              /\ HasReturned => outcome.kind = "pair"
        /\ (plabels # None /\ clabels = None) =>
              /\ outcome.kind = "raised"
              /\ Validate(label_masks, batch_size) =>
                    (outcome.error = "AttributeError" /\ outcome.line = 107)

\* a call with plabels and without clabels that got to line 107
C10_Witness ==
    /\ pc = "raised"
    /\ plabels # None
    /\ clabels = None
    /\ outcome.error = "AttributeError"
    /\ MaskCount(0) >= 2

\* ------------------------------------------------ resize_token_embeddings
\* What an instance of PuncCapBiLstmCrf has besides the attributes of
\* nn.Module: the submodules set in __init__ (lines 22-35) and the methods of
\* the class (lines 38, 43, 71).  nn.Module has no _resize_token_embeddings,
\* no config and no tie_weights, and __init__ does not store its config.
ClassAttrs ==
    {"embeddings", "bilstm", "dropout", "p_classifier", "c_classifier", "p_crf", "c_crf",
     "from_pretrained", "resize_token_embeddings", "forward"}
HasAttr(name) == name \in ClassAttrs

\* The table the docstring (lines 45-53) describes: the first rows kept,
\* new rows added at the end, rows removed from the end.
Resized(table, n) ==
    [r \in 1 .. n |-> IF r <= Len(table) THEN table[r] ELSE 0]

CompactIdle ==
    /\ batch_size = 0
    /\ max_len = 0
    /\ valid_ids = None
    /\ seq_output = None
    /\ valid_output = None
    /\ i = 0
    /\ j = 0
    /\ jj = -1
    /\ writes = None

\* The model after construction with a config of vocab_size rows (line 22).
InitResize ==
    /\ pc = "constructed"
    /\ vocab_size \in 1 .. MaxVocab
    /\ word_embeddings \in [1 .. vocab_size -> {0, 1}]
    /\ old_embeddings = word_embeddings
    /\ new_num_tokens = {}
    /\ raised = None
    /\ CompactIdle
    /\ ForwardIdle

AttributeError(line) == [error |-> "AttributeError", line |-> line]

\* resize_token_embeddings(new_num_tokens), lines 43-69.  The Optional[int]
\* argument is a set: {} for None, {n} for the number n.
Resize ==
    \E arg \in {{}} \cup { {size} : size \in 0 .. MaxVocab + 1 } :
      LET n == IF arg = {} THEN 0 ELSE CHOOSE size \in arg : TRUE IN
        /\ new_num_tokens' = arg
        /\ old_embeddings' = word_embeddings
        /\ IF ~HasAttr("_resize_token_embeddings")
           THEN \* line 58
                /\ raised' = AttributeError(58)
                /\ pc' = "raised"
                /\ UNCHANGED <<word_embeddings, vocab_size>>
           ELSE IF arg = {}
           THEN \* lines 59-60
                /\ raised' = None
                /\ pc' = "resized"
                /\ UNCHANGED <<word_embeddings, vocab_size>>
           ELSE IF ~HasAttr("config")
           THEN \* line 63
                /\ word_embeddings' = Resized(word_embeddings, n)
                /\ raised' = AttributeError(63)
                /\ pc' = "raised"
                /\ UNCHANGED vocab_size
           ELSE IF ~HasAttr("tie_weights")
           THEN \* line 67
                /\ word_embeddings' = Resized(word_embeddings, n)
                /\ vocab_size' = n
                /\ raised' = AttributeError(67)
                /\ pc' = "raised"
           ELSE /\ word_embeddings' = Resized(word_embeddings, n)
                /\ vocab_size' = n
                /\ raised' = None
                /\ pc' = "resized"
        /\ UNCHANGED <<batch_size, max_len, valid_ids, seq_output, valid_output, i, j, jj, writes>>
        /\ UNCHANGED fvars

NextResize == Resize

SpecResize == InitResize /\ [][NextResize]_vars

\* C7: resize_token_embeddings(n) completes and leaves a table of n rows whose
\* first min(N, n) rows are the rows it had, in order, and the stored
\* vocabulary size n, equal to the number of rows.
C7_ResizeCompletes ==
    \A n \in new_num_tokens :
        pc \in {"resized", "raised"} =>
            /\ pc = "resized"
            /\ Len(word_embeddings) = n
            /\ \A r \in 1 .. Len(word_embeddings) :
                  r <= Len(old_embeddings) => word_embeddings[r] = old_embeddings[r]
            /\ vocab_size = n
            /\ vocab_size = Len(word_embeddings)

====
